---- MODULE Spec2Model ----
(***************************************************************************)
(* Model of src/lib/syntax.ts of codemirror6-emmet: the syntax classifier  *)
(* that turns a resolved editor context into a SyntaxInfo and into the     *)
(* abbreviation context handed to the Emmet expander.                      *)
(*                                                                         *)
(* Every exported function is a pure query.  It is modelled as an operator *)
(* computed the way the code computes it, and as an action that calls it   *)
(* on inputs drawn from bounded sets and records the call in the state.    *)
(* The upward tree walk of getMarkupAbbreviationContext is modelled step   *)
(* by step.                                                                *)
(*                                                                         *)
(* Encoding of JavaScript values:                                          *)
(*   - strings are TLA+ strings; the value undefined in a slot that holds  *)
(*     a primitive is the string Undefined;                                *)
(*   - undefined / null in a slot that holds an object is UndefinedObj;    *)
(*   - a slot of type boolean | undefined holds True, False or Undefined;  *)
(*   - arrays are sequences (index 0 of the code is index 1 here).         *)
(***************************************************************************)
EXTENDS Integers, Sequences, FiniteSets, TLC

VARIABLES op, args, result, pc, node, steps

vars == <<op, args, result, pc, node, steps>>

-----------------------------------------------------------------------------
(* Bounds of the model *)

\* longest ancestor chain of a context
MaxAncestors == 2
\* largest document offset used as cursor position or range start
MaxPos == 1
\* number of nodes of a syntax tree
MaxNodes == 3
\* length of the raw source text, in tokens
MaxCodeLen == 3
\* longest option list given to enabledForSyntax
MaxOptLen == 2

-----------------------------------------------------------------------------
(* JavaScript values *)

Undefined == "<undefined>"
UndefinedObj == [undefined |-> TRUE]
True == "true"
False == "false"

\* truthiness of a string | undefined value
TruthyStr(s) == s # Undefined /\ s # ""
\* truthiness of a boolean | undefined value
TruthyBool(b) == b = True
\* truthiness of an object | undefined value
TruthyObj(o) == o # UndefinedObj
\* a value interpolated in a template literal
TemplateStr(s) == IF s = Undefined THEN "undefined" ELSE s

\* Array.prototype.includes
includes(arr, x) == \E i \in 1..Len(arr) : arr[i] = x

\* String.prototype.slice / Array.prototype.slice for 0 <= from, to
slice(s, from, to) ==
    LET hi == IF to > Len(s) THEN Len(s) ELSE to
    IN  IF from >= hi THEN <<>> ELSE SubSeq(s, from + 1, hi)

\* all sequences over S of length at most n
SeqsUpTo(S, n) == UNION {[1..k -> S] : k \in 0..n}

-----------------------------------------------------------------------------
(* Syntax tables, lines 13-18 *)

xmlSyntaxes == <<"xml", "xsl", "jsx">>
htmlSyntaxes == <<"html", "htmlmixed", "vue">>
cssSyntaxes == <<"css", "scss", "less">>
jsxSyntaxes == <<"jsx", "tsx">>

\* mutant: the CSS dialects are concatenated into the markup table
markupSyntaxes_dual == <<"haml", "jade", "pug", "slim">> \o htmlSyntaxes \o cssSyntaxes \o jsxSyntaxes
markupSyntaxes == <<"haml", "jade", "pug", "slim">> \o htmlSyntaxes \o xmlSyntaxes \o jsxSyntaxes

\* mutant: the CSS dialects are left out of the stylesheet table
stylesheetSyntaxes_noConcat == <<"sass", "sss", "stylus", "postcss">>
stylesheetSyntaxes == <<"sass", "sss", "stylus", "postcss">> \o cssSyntaxes

\* enum TokenType, lines 37-42
TokenType == [Selector |-> "selector", PropertyName |-> "propertyName",
              PropertyValue |-> "propertyValue", BlockEnd |-> "blockEnd"]

\* enum CSSAbbreviationScope, lines 44-53
CSSAbbreviationScope == [Global |-> "@@global", Section |-> "@@section",
                         Property |-> "@@property", Value |-> "@@value"]

\* the top-level languages an editor state can declare
cssLanguage == "cssLanguage"
htmlLanguage == "htmlLanguage"
otherLanguage == "otherLanguage"

-----------------------------------------------------------------------------
(* Helpers imported from ./utils and ./context *)

\* last(arr): the last element of an array, undefined when it is empty
last(arr) == IF Len(arr) = 0 THEN UndefinedObj ELSE arr[Len(arr)]

\* context?.type
TypeOf(context) == IF context = UndefinedObj THEN Undefined ELSE context.type

\* getContext(state, pos): the context the resolver finds at an offset
getContext(state, pos) == state.contextAt[pos]

\* typeof ctx === 'number': a cursor offset is passed as [pos |-> n]
IsNumber(ctx) == "pos" \in DOMAIN ctx

-----------------------------------------------------------------------------
(* docSyntax, getSyntaxType, isSupported, syntaxInfo *)

docSyntax(state) ==
    LET topLang == state.language
    IN  IF topLang = cssLanguage THEN "css"
        ELSE IF topLang = htmlLanguage THEN "html"
        ELSE ""

getSyntaxType(syntax) ==
    IF TruthyStr(syntax) /\ includes(stylesheetSyntaxes, syntax)
    THEN "stylesheet" ELSE "markup"

isSupported(syntax) ==
    IF TruthyStr(syntax)
    THEN includes(markupSyntaxes, syntax) \/ includes(stylesheetSyntaxes, syntax)
    ELSE FALSE

\* mutant: the inline branch forgets to replace the context
syntaxInfo_keepHtmlContext(state, ctx) ==
    LET syntax0 == docSyntax(state)
        context0 == IF IsNumber(ctx) THEN getContext(state, ctx.pos) ELSE ctx
        html == TypeOf(context0) = "html" /\ TruthyObj(context0.css)
        css == ~html /\ TypeOf(context0) = "css"
        syntax == IF html \/ css THEN "css" ELSE syntax0
    IN  [type |-> getSyntaxType(syntax), syntax |-> syntax,
         inline |-> IF html THEN True ELSE Undefined, context |-> context0]

\* mutant: a plain CSS context does not override the document syntax
syntaxInfo_noCssBranch(state, ctx) ==
    LET syntax0 == docSyntax(state)
        context0 == IF IsNumber(ctx) THEN getContext(state, ctx.pos) ELSE ctx
        html == TypeOf(context0) = "html" /\ TruthyObj(context0.css)
        syntax == IF html THEN "css" ELSE syntax0
    IN  [type |-> getSyntaxType(syntax), syntax |-> syntax,
         inline |-> IF html THEN True ELSE Undefined,
         context |-> IF html THEN context0.css ELSE context0]

\* mutant: the type is classified before the context override runs
syntaxInfo_typeBeforeOverride(state, ctx) ==
    LET syntax0 == docSyntax(state)
        context0 == IF IsNumber(ctx) THEN getContext(state, ctx.pos) ELSE ctx
        html == TypeOf(context0) = "html" /\ TruthyObj(context0.css)
        css == ~html /\ TypeOf(context0) = "css"
        syntax == IF html \/ css THEN "css" ELSE syntax0
    IN  [type |-> getSyntaxType(syntax0), syntax |-> syntax,
         inline |-> IF html THEN True ELSE Undefined,
         context |-> IF html THEN context0.css ELSE context0]

syntaxInfo(state, ctx) ==
    LET syntax0 == docSyntax(state)
        context0 == IF IsNumber(ctx) THEN getContext(state, ctx.pos) ELSE ctx
        html == TypeOf(context0) = "html" /\ TruthyObj(context0.css)
        css == ~html /\ TypeOf(context0) = "css"
        syntax == IF html \/ css THEN "css" ELSE syntax0
    IN  [type |-> getSyntaxType(syntax), syntax |-> syntax,
         inline |-> IF html THEN True ELSE Undefined,
         context |-> IF html THEN context0.css ELSE context0]

-----------------------------------------------------------------------------
(* enabledForSyntax *)

\* mutant: the '-inline' candidates are added whatever info.inline is
enabledForSyntax_alwaysInline(opt, info) ==
    IF opt.kind = "boolean" /\ opt.value = TRUE THEN TRUE
    ELSE IF opt.kind = "array"
    THEN LET candidates == <<info.type, info.syntax>>
                 \o <<TemplateStr(info.type) \o "-inline", TemplateStr(info.syntax) \o "-inline">>
         IN  \E i \in 1..Len(candidates) : includes(opt.items, candidates[i])
    ELSE FALSE

enabledForSyntax(opt, info) ==
    IF opt.kind = "boolean" /\ opt.value = TRUE THEN TRUE
    ELSE IF opt.kind = "array"
    THEN LET candidates == <<info.type, info.syntax>>
                 \o (IF TruthyBool(info.inline)
                     THEN <<TemplateStr(info.type) \o "-inline", TemplateStr(info.syntax) \o "-inline">>
                     ELSE <<>>)
         IN  \E i \in 1..Len(candidates) : includes(opt.items, candidates[i])
    ELSE FALSE

-----------------------------------------------------------------------------
(* getEmbeddedStyleSyntax *)

\* attributes(src, name) of @emmetio/html-matcher: the attribute tokens of a
\* tag's source, in source order.  The source text is a sequence of tokens,
\* each either plain text or one attribute.
attributes(src, name) == SelectSeq(src, LAMBDA t : t.kind = "attr")

\* attributeValue(attr): the value of an attribute token
attributeValue(attr) == attr.value

\* mutant: the name of the parent tag is not tested
getEmbeddedStyleSyntax_anyTag(code, ctx) ==
    LET parent == last(ctx.ancestors)
    IN  IF TruthyObj(parent)
        THEN LET attrs == attributes(slice(code, parent.range[1], parent.range[2]), parent.name)
                 hits == {i \in 1..Len(attrs) : attrs[i].name = "type"}
             IN  IF hits = {} THEN Undefined
                 ELSE attributeValue(attrs[CHOOSE i \in hits : \A j \in hits : i <= j])
        ELSE Undefined

getEmbeddedStyleSyntax(code, ctx) ==
    LET parent == last(ctx.ancestors)
    IN  IF TruthyObj(parent) /\ parent.name = "style"
        THEN LET attrs == attributes(slice(code, parent.range[1], parent.range[2]), parent.name)
                 hits == {i \in 1..Len(attrs) : attrs[i].name = "type"}
             IN  IF hits = {} THEN Undefined
                 ELSE attributeValue(attrs[CHOOSE i \in hits : \A j \in hits : i <= j])
        ELSE Undefined

-----------------------------------------------------------------------------
(* getStylesheetAbbreviationContext *)

\* mutant: the inline flag is not looked at
getStylesheetAbbreviationContext_ignoreInline(ctx) ==
    LET parent == last(ctx.ancestors)
        current == ctx.current
    IN  [name |->
            IF TruthyObj(current) /\ current.type = TokenType.PropertyValue /\ TruthyObj(parent)
            THEN parent.name
            ELSE IF TruthyObj(current)
                    /\ (current.type = TokenType.Selector \/ current.type = TokenType.PropertyName)
                    /\ ~TruthyObj(parent)
            THEN CSSAbbreviationScope.Section
            ELSE CSSAbbreviationScope.Global]

\* mutant: the section scope is given inside a rule instead of at top level
getStylesheetAbbreviationContext_sectionInside(ctx) ==
    IF TruthyBool(ctx.inline) THEN [name |-> CSSAbbreviationScope.Property]
    ELSE
    LET parent == last(ctx.ancestors)
        current == ctx.current
    IN  [name |->
            IF TruthyObj(current) /\ current.type = TokenType.PropertyValue /\ TruthyObj(parent)
            THEN parent.name
            ELSE IF TruthyObj(current)
                    /\ (current.type = TokenType.Selector \/ current.type = TokenType.PropertyName)
                    /\ TruthyObj(parent)
            THEN CSSAbbreviationScope.Section
            ELSE CSSAbbreviationScope.Global]

getStylesheetAbbreviationContext(ctx) ==
    IF TruthyBool(ctx.inline) THEN [name |-> CSSAbbreviationScope.Property]
    ELSE
    LET parent == last(ctx.ancestors)
        current == ctx.current
    IN  [name |->
            IF TruthyObj(current) /\ current.type = TokenType.PropertyValue /\ TruthyObj(parent)
            THEN parent.name
            ELSE IF TruthyObj(current)
                    /\ (current.type = TokenType.Selector \/ current.type = TokenType.PropertyName)
                    /\ ~TruthyObj(parent)
            THEN CSSAbbreviationScope.Section
            ELSE CSSAbbreviationScope.Global]

-----------------------------------------------------------------------------
(* getMarkupAbbreviationContext *)

\* A syntax tree has nodes 1..Len(tree.name); node 1 is the root.  tree.parent[n]
\* is the parent of n, 0 (null) for the root; a parent precedes its children.
null == 0

\* syntaxTree(state).resolve(pos, 1): the innermost node at an offset
resolve(state, pos) == state.tree.nodeAt[pos]

\* getTagAttributes(state, node): the name -> value mapping of a tag node, as
\* a set of <<name, value>> pairs
getTagAttributes(state, n) == state.tree.attrs[n]

\* mutant: the test for the open tag is inverted
walkContinues_inverted(state, n) == n # null /\ state.tree.name[n] = "OpenTag"

\* the condition of the while loop, line 188
walkContinues(state, n) == n # null /\ state.tree.name[n] # "OpenTag"

\* the value returned at lines 192-195, once the walk has stopped at n
markupContextOf(state, ctx, n) ==
    [name |-> last(ctx.ancestors).name,
     attributes |-> IF n # null THEN getTagAttributes(state, n) ELSE {}]

-----------------------------------------------------------------------------
(* Inputs *)

Positions == 0..MaxPos

\* ancestor chains, outermost first: an outer part of at most MaxAncestors - 1
\* nodes and an innermost node whose range is drawn from ranges
AncestorChains(names, outerRange, ranges) ==
    {<<>>} \cup
    {outer \o <<[name |-> n, range |-> r]>> :
        outer \in SeqsUpTo({[name |-> m, range |-> outerRange] : m \in names}, MaxAncestors - 1),
        n \in names, r \in ranges}

TagNames == {"div", "style"}
RuleNames == {".foo", "color"}

Tokens == {UndefinedObj} \cup
          {[type |-> TokenType[k], range |-> <<0, 1>>] :
              k \in {"Selector", "PropertyName", "PropertyValue", "BlockEnd"}}

CSSContexts ==
    {[type |-> "css", ancestors |-> a, inline |-> i, current |-> c] :
        a \in AncestorChains(RuleNames, <<0, 1>>, {<<0, 1>>}),
        i \in {True, False, Undefined}, c \in Tokens}

HTMLContextsOver(chains) ==
    {[type |-> "html", ancestors |-> a, css |-> c] :
        a \in chains, c \in {UndefinedObj} \cup CSSContexts}

HTMLContexts == HTMLContextsOver(AncestorChains(TagNames, <<0, 1>>, {<<0, 1>>}))

Contexts == {UndefinedObj} \cup HTMLContexts \cup CSSContexts

Languages == {cssLanguage, htmlLanguage, otherLanguage}

EmptyTree == [name |-> <<"Document">>, parent |-> <<null>>,
              nodeAt |-> [p \in Positions |-> 1], attrs |-> <<{}>>]

\* an editor state whose resolver finds context c at offset p and nothing elsewhere
StateWith(lang, p, c) ==
    [language |-> lang,
     contextAt |-> [q \in Positions |-> IF q = p THEN c ELSE UndefinedObj],
     tree |-> EmptyTree]

NodeNames == {"Element", "OpenTag"}

\* trees of MaxNodes nodes; offset q resolves to node n, every other offset to the root
Trees ==
    {[name |-> nm, parent |-> pa,
      nodeAt |-> [p \in Positions |-> IF p = q THEN n ELSE 1],
      attrs |-> [m \in 1..MaxNodes |-> {<<"id", m>>}]] :
        nm \in [1..MaxNodes -> NodeNames],
        pa \in {f \in [1..MaxNodes -> 0..MaxNodes] :
                   f[1] = null /\ \A i \in 2..MaxNodes : f[i] \in 1..(i - 1)},
        q \in Positions, n \in 1..MaxNodes}

SourceTokens ==
    {[kind |-> "text"],
     [kind |-> "attr", name |-> "type", value |-> "text/scss"],
     [kind |-> "attr", name |-> "type", value |-> "text/css"],
     [kind |-> "attr", name |-> "type", value |-> Undefined],
     [kind |-> "attr", name |-> "lang", value |-> "scss"]}

Codes == [1..MaxCodeLen -> SourceTokens]

CodeRanges == {r \in (0..MaxCodeLen) \X (0..MaxCodeLen) : r[1] <= r[2]}

\* the elements of an array
Elements(arr) == {arr[i] : i \in 1..Len(arr)}

\* the syntax names of the data model, the empty name, an absent name and two
\* names no table holds
SyntaxArgs == {"html", "htmlmixed", "vue", "xml", "xsl", "jsx", "tsx", "haml", "jade",
               "pug", "slim", "css", "scss", "less", "sass", "sss", "stylus", "postcss",
               "", Undefined, "python", "markdown"}

OptionTags == {"markup", "stylesheet", "css", "html", "scss", "markup-inline",
               "stylesheet-inline", "css-inline", "html-inline", "undefined-inline"}

Options == {[kind |-> "boolean", value |-> TRUE], [kind |-> "boolean", value |-> FALSE]}
           \cup {[kind |-> "array", items |-> l] : l \in SeqsUpTo(OptionTags, MaxOptLen)}

Infos == [type : {"markup", "stylesheet"},
          syntax : {"", "css", "html", "scss", Undefined},
          inline : {True, False, Undefined}]

-----------------------------------------------------------------------------
(* The calls *)

Init ==
    /\ op = "none"
    /\ args = UndefinedObj
    /\ result = UndefinedObj
    /\ pc = "idle"
    /\ node = null
    /\ steps = 0

\* a call that returns r at once; every call is a query on a fresh snapshot
Call(o, a, r) ==
    /\ op = "none"
    /\ op' = o
    /\ args' = a
    /\ result' = r
    /\ pc' = "idle"
    /\ node' = null
    /\ steps' = 0

SyntaxInfoOfContext ==
    /\ op = "none"
    /\ \E lang \in Languages, c \in Contexts :
           LET state == StateWith(lang, 0, UndefinedObj)
           IN  Call("syntaxInfo", [state |-> state, ctx |-> c], syntaxInfo(state, c))

SyntaxInfoAtCursor ==
    /\ op = "none"
    /\ \E lang \in Languages, c \in Contexts, p \in Positions, q \in Positions :
           LET state == StateWith(lang, p, c)
           IN  Call("syntaxInfo", [state |-> state, ctx |-> [pos |-> q]],
                    syntaxInfo(state, [pos |-> q]))

GetSyntaxType ==
    /\ op = "none"
    /\ \E s \in SyntaxArgs : Call("getSyntaxType", [syntax |-> s], getSyntaxType(s))

IsSupported ==
    /\ op = "none"
    /\ \E s \in SyntaxArgs \ {Undefined} : Call("isSupported", [syntax |-> s], isSupported(s))

EnabledForSyntax ==
    /\ op = "none"
    /\ \E o \in Options, i \in Infos :
           Call("enabledForSyntax", [opt |-> o, info |-> i], enabledForSyntax(o, i))

GetEmbeddedStyleSyntax ==
    /\ op = "none"
    /\ \E code \in Codes,
          a \in AncestorChains(TagNames, <<0, MaxCodeLen>>, CodeRanges) :
           LET ctx == [type |-> "html", ancestors |-> a, css |-> UndefinedObj]
           IN  Call("getEmbeddedStyleSyntax", [code |-> code, ctx |-> ctx],
                    getEmbeddedStyleSyntax(code, ctx))

GetStylesheetAbbreviationContext ==
    /\ op = "none"
    /\ \E c \in CSSContexts :
           Call("getStylesheetAbbreviationContext", [ctx |-> c],
                getStylesheetAbbreviationContext(c))

\* lines 185-187 and 198: no parent returns at once, a parent starts the walk
GetMarkupAbbreviationContext ==
    /\ op = "none"
    /\ \E t \in Trees,
          a \in AncestorChains(TagNames, <<0, 1>>, {<<p, p + 1>> : p \in Positions}) :
           LET state == [language |-> htmlLanguage,
                         contextAt |-> [q \in Positions |-> UndefinedObj], tree |-> t]
               ctx == [type |-> "html", ancestors |-> a, css |-> UndefinedObj]
               parent == last(ctx.ancestors)
           IN  /\ op' = "getMarkupAbbreviationContext"
               /\ args' = [state |-> state, ctx |-> ctx]
               /\ result' = UndefinedObj
               /\ steps' = 0
               /\ IF TruthyObj(parent)
                  THEN pc' = "walk" /\ node' = resolve(state, parent.range[1])
                  ELSE pc' = "idle" /\ node' = null

\* lines 188-190: one turn of the loop
WalkToParent ==
    /\ pc = "walk"
    /\ walkContinues(args.state, node)
    /\ node' = args.state.tree.parent[node]
    /\ steps' = steps + 1
    /\ UNCHANGED <<op, args, result, pc>>

\* lines 192-195: the loop has ended
WalkReturn ==
    /\ pc = "walk"
    /\ ~walkContinues(args.state, node)
    /\ result' = markupContextOf(args.state, args.ctx, node)
    /\ pc' = "idle"
    /\ UNCHANGED <<op, args, node, steps>>

Next ==
    \/ SyntaxInfoOfContext
    \/ SyntaxInfoAtCursor
    \/ GetSyntaxType
    \/ IsSupported
    \/ EnabledForSyntax
    \/ GetEmbeddedStyleSyntax
    \/ GetStylesheetAbbreviationContext
    \/ GetMarkupAbbreviationContext
    \/ WalkToParent
    \/ WalkReturn

Spec == Init /\ [][Next]_vars

-----------------------------------------------------------------------------
(* Properties of syntaxInfo *)

\* the context a syntaxInfo call works on: the one passed in, or the one the
\* resolver finds at the cursor offset passed in
GivenContext ==
    IF "pos" \in DOMAIN args.ctx THEN args.state.contextAt[args.ctx.pos] ELSE args.ctx

GivenIsInlineHtml ==
    /\ GivenContext # UndefinedObj
    /\ GivenContext.type = "html"
    /\ GivenContext.css # UndefinedObj

GivenIsCss == GivenContext # UndefinedObj /\ GivenContext.type = "css"

\* C1: for every document and every HTML context that carries a css
\* sub-context, passed in resolved or found at a cursor offset, syntaxInfo
\* returns type 'stylesheet', syntax 'css', inline true and the nested CSS
\* context, not the HTML context.
C1_InlineStylesheet ==
    (op = "syntaxInfo" /\ GivenIsInlineHtml) =>
        /\ result = [type |-> "stylesheet", syntax |-> "css", inline |-> True,
                     context |-> GivenContext.css]
        /\ result.context # GivenContext

C1_Witness ==
    /\ op = "syntaxInfo"
    /\ "pos" \in DOMAIN args.ctx
    /\ GivenIsInlineHtml
    /\ args.state.language = htmlLanguage
    /\ result.inline = True

\* C2: for every document, whatever docSyntax returns for it, and every plain
\* CSS context, syntaxInfo returns syntax 'css' and type 'stylesheet', leaves
\* inline unset and returns the same CSS context.
C2_PlainCss ==
    (op = "syntaxInfo" /\ GivenIsCss) =>
        /\ result.syntax = "css"
        /\ result.type = "stylesheet"
        /\ result.inline = Undefined
        /\ result.context = GivenContext

C2_Witness ==
    /\ op = "syntaxInfo"
    /\ GivenIsCss
    /\ args.state.language = htmlLanguage
    /\ GivenContext.inline = True
    /\ result.syntax = "css"

-----------------------------------------------------------------------------
(* Properties of getStylesheetAbbreviationContext *)

\* C3: on a CSS context whose inline flag is true the result is
\* {name: '@@property'}, whatever the ancestors and the current token.
C3_InlineIsProperty ==
    (op = "getStylesheetAbbreviationContext" /\ args.ctx.inline = True) =>
        result = [name |-> "@@property"]

C3_Witness ==
    /\ op = "getStylesheetAbbreviationContext"
    /\ args.ctx.inline = True
    /\ Len(args.ctx.ancestors) > 0
    /\ args.ctx.current # UndefinedObj
    /\ args.ctx.current.type = "propertyValue"
    /\ result.name = "@@property"

\* the kind of the current token of the context of the call, Undefined if none
CurrentKind ==
    IF args.ctx.current = UndefinedObj THEN Undefined ELSE args.ctx.current.type

\* C4: on a CSS context that is not inline the result is the name of the
\* innermost ancestor when the current token is PropertyValue and there is an
\* ancestor, '@@section' when the current token is Selector or PropertyName
\* and there is no ancestor, and '@@global' in every other combination.
C4_ScopeTable ==
    (op = "getStylesheetAbbreviationContext" /\ args.ctx.inline # True) =>
        LET a == args.ctx.ancestors
        IN  result =
              [name |->
                 IF CurrentKind = "propertyValue" /\ Len(a) > 0 THEN a[Len(a)].name
                 ELSE IF CurrentKind \in {"selector", "propertyName"} /\ Len(a) = 0
                 THEN "@@section"
                 ELSE "@@global"]

C4_Witness ==
    /\ op = "getStylesheetAbbreviationContext"
    /\ args.ctx.inline = False
    /\ Len(args.ctx.ancestors) = 2
    /\ args.ctx.ancestors[1].name # args.ctx.ancestors[2].name
    /\ CurrentKind = "propertyValue"
    /\ result.name = args.ctx.ancestors[2].name

-----------------------------------------------------------------------------
(* Properties of enabledForSyntax *)

\* the candidate tags of the info of the call
CandidateTags ==
    {args.info.type, args.info.syntax} \cup
    (IF args.info.inline = True
     THEN {args.info.type \o "-inline", TemplateStr(args.info.syntax) \o "-inline"}
     ELSE {})

InlineTags == {t \o "-inline" : t \in {"markup", "stylesheet", "css", "html", "undefined"}}

\* C5: enabledForSyntax(true, info) is true; for a list of tags the result is
\* true exactly when the list holds a candidate tag (type, syntax, and with
\* inline true also type-inline and syntax-inline), so a list of '-inline'
\* tags only never enables an info whose inline flag is false or unset.
C5_EnabledForSyntax ==
    op = "enabledForSyntax" =>
        /\ args.opt = [kind |-> "boolean", value |-> TRUE] => result = TRUE
        /\ args.opt.kind = "array" =>
             /\ result <=> (CandidateTags \cap Elements(args.opt.items) # {})
             /\ (/\ Elements(args.opt.items) \subseteq InlineTags
                 /\ args.info.inline # True) => result = FALSE

C5_Witness ==
    /\ op = "enabledForSyntax"
    /\ args.opt.kind = "array"
    /\ args.opt.items = <<"html", "css-inline">>
    /\ args.info = [type |-> "stylesheet", syntax |-> "css", inline |-> True]
    /\ result = TRUE

-----------------------------------------------------------------------------
(* Properties of the syntax tables *)

\* C6: getSyntaxType returns 'stylesheet' exactly for sass, sss, stylus,
\* postcss, css, scss and less, and 'markup' for every other input: the empty
\* string, an absent syntax, the markup syntaxes and unknown names.
C6_SyntaxType ==
    op = "getSyntaxType" =>
        IF args.syntax \in {"sass", "sss", "stylus", "postcss", "css", "scss", "less"}
        THEN result = "stylesheet"
        ELSE result = "markup"

C6_Witness ==
    /\ op = "getSyntaxType"
    /\ args.syntax = "scss"
    /\ result = "stylesheet"

\* C9: no syntax name is in both markupSyntaxes and stylesheetSyntaxes, so for
\* every name isSupported accepts exactly one of 'it is a markup syntax' and
\* 'getSyntaxType of it is stylesheet' holds.
C9_Disjoint ==
    /\ Elements(markupSyntaxes) \cap Elements(stylesheetSyntaxes) = {}
    /\ (op = "isSupported" /\ result = TRUE) =>
           (includes(markupSyntaxes, args.syntax)
                # (getSyntaxType(args.syntax) = "stylesheet"))

C9_Witness ==
    /\ op = "isSupported"
    /\ args.syntax = "jsx"
    /\ result = TRUE
    /\ getSyntaxType(args.syntax) = "markup"

-----------------------------------------------------------------------------
(* Properties of getMarkupAbbreviationContext *)

\* node n and the nodes above it, up to the root
RECURSIVE UpFrom(_, _)
UpFrom(tree, n) == IF n = null THEN {} ELSE {n} \cup UpFrom(tree, tree.parent[n])

\* the attributes the call is expected to report: those of the OpenTag node
\* nearest to the node at the start of the innermost ancestor, none when no
\* node from there up to the root is an OpenTag.  A parent precedes its
\* children, so the nearest node of a chain is its greatest.
ExpectedAttributes ==
    LET tree == args.state.tree
        a == args.ctx.ancestors
        start == tree.nodeAt[a[Len(a)].range[1]]
        tags == {m \in UpFrom(tree, start) : tree.name[m] = "OpenTag"}
    IN  IF tags = {} THEN {}
        ELSE tree.attrs[CHOOSE m \in tags : \A k \in tags : k <= m]

\* C7: without ancestors the call returns nothing; with ancestors it returns
\* the name of the innermost ancestor and the attributes of the nearest
\* OpenTag node at or above the node resolved at that ancestor's range start,
\* the empty mapping when the walk reaches the root without meeting one.  The
\* walk takes at most as many steps as the tree has nodes.
C7_MarkupContext ==
    op = "getMarkupAbbreviationContext" =>
        /\ steps <= Len(args.state.tree.name)
        /\ (pc = "walk" /\ steps = Len(args.state.tree.name)) => node = null
        /\ pc = "idle" =>
             IF Len(args.ctx.ancestors) = 0
             THEN result = UndefinedObj
             ELSE result = [name |-> args.ctx.ancestors[Len(args.ctx.ancestors)].name,
                            attributes |-> ExpectedAttributes]

C7_Witness ==
    /\ op = "getMarkupAbbreviationContext"
    /\ pc = "idle"
    /\ Len(args.ctx.ancestors) = 2
    /\ args.ctx.ancestors[1].name # args.ctx.ancestors[2].name
    /\ steps = 2
    /\ result # UndefinedObj
    /\ result.attributes = {<<"id", 1>>}

-----------------------------------------------------------------------------
(* Properties of getEmbeddedStyleSyntax *)

\* the positions of the 'type' attributes in the part of the code the range of
\* the innermost ancestor covers
TypeAttributesOfParent ==
    LET a == args.ctx.ancestors
        r == a[Len(a)].range
    IN  {i \in 1..Len(args.code) :
            /\ r[1] < i
            /\ i <= r[2]
            /\ args.code[i].kind = "attr"
            /\ args.code[i].name = "type"}

ParentIsStyleWithType ==
    /\ Len(args.ctx.ancestors) > 0
    /\ args.ctx.ancestors[Len(args.ctx.ancestors)].name = "style"
    /\ TypeAttributesOfParent # {}

\* C8: getEmbeddedStyleSyntax returns a value only when the innermost ancestor
\* is named 'style' and the attributes in its range include one named 'type',
\* and the value is that of the first of them; it returns nothing without
\* ancestors, with an innermost ancestor of another name, and without a
\* 'type' attribute.
C8_EmbeddedStyleSyntax ==
    op = "getEmbeddedStyleSyntax" =>
        /\ result # Undefined =>
             /\ ParentIsStyleWithType
             /\ result = args.code[CHOOSE i \in TypeAttributesOfParent :
                                      \A j \in TypeAttributesOfParent : i <= j].value
        /\ ~ParentIsStyleWithType => result = Undefined

C8_Witness ==
    /\ op = "getEmbeddedStyleSyntax"
    /\ Len(args.ctx.ancestors) = 2
    /\ args.ctx.ancestors[2].range = <<1, 3>>
    /\ args.code[1] = [kind |-> "attr", name |-> "type", value |-> "text/css"]
    /\ args.code[2] = [kind |-> "attr", name |-> "lang", value |-> "scss"]
    /\ args.code[3] = [kind |-> "attr", name |-> "type", value |-> "text/scss"]
    /\ result = "text/scss"

====
